---- MODULE Spec2Model ----
(***************************************************************************)
(* Model of the Diferencia proxy core (core/proxy.go): the safety gate,    *)
(* the calls to Primary, Candidate and Secondary, noise cancellation, the  *)
(* comparison, the export of the interactions and the HTTP handler that    *)
(* turns the outcome into a status code.                                   *)
(*                                                                         *)
(* The packages difference/json and exporter and the function CreateUrl    *)
(* belong to the repository but are not part of core/proxy.go; they are    *)
(* modelled from the specification (sections 4.2, 4.3, 4.5).               *)
(***************************************************************************)
EXTENDS Integers, Sequences, FiniteSets, TLC

(***************************************************************************)
(* Bounds of the model.                                                    *)
(***************************************************************************)
\* Primitive JSON values at a path are the numbers 1..MaxValue.
MaxValue == 2

(***************************************************************************)
(* net/http constants used by core/proxy.go.                               *)
(***************************************************************************)
StatusOK == 200
StatusCreated == 201
StatusBadRequest == 400
StatusMethodNotAllowed == 405
StatusPreconditionFailed == 412
StatusInternalServerError == 500
StatusServiceUnavailable == 503

MethodGet == "GET"
MethodOptions == "OPTIONS"
MethodHead == "HEAD"
MethodPost == "POST"

Methods == {MethodGet, MethodOptions, MethodHead, MethodPost}

(***************************************************************************)
(* Difference: the comparison mode and its names.                          *)
(***************************************************************************)
Strict == 0
Subset == 1
Schema == 2

Difference == {Strict, Subset, Schema}

\* func (difference Difference) String() string
DifferenceString(difference) ==
    IF difference < Strict \/ difference > Schema
    THEN "Unknown"
    ELSE <<"Strict", "Subset", "Schema">>[difference + 1]

\* NewDifference taking "Unknown" for the name of the value it returns
\* for no mode.
NewDifference_UnknownKnown(difference) ==
    CASE difference = "Strict" -> [difference |-> Strict, err |-> FALSE]
      [] difference = "Subset" -> [difference |-> Subset, err |-> FALSE]
      [] difference = "Schema" -> [difference |-> Schema, err |-> FALSE]
      [] difference = "Unknown" -> [difference |-> -1, err |-> FALSE]
      [] OTHER -> [difference |-> -1, err |-> TRUE]

\* func NewDifference(difference string) (Difference, error)
NewDifference(difference) ==
    CASE difference = "Strict" -> [difference |-> Strict, err |-> FALSE]
      [] difference = "Subset" -> [difference |-> Subset, err |-> FALSE]
      [] difference = "Schema" -> [difference |-> Schema, err |-> FALSE]
      [] OTHER -> [difference |-> -1, err |-> TRUE]

(***************************************************************************)
(* JSON documents and bodies (difference/json, modelled from sections 4.2  *)
(* and 4.3 of the specification).  A document is a flat object: a function *)
(* from the keys it holds to primitive values; a path is "/" and a key.    *)
(* The documents of the model hold the key a and may hold the key b.       *)
(* A body is a sequence of bytes: either the serialisation of a document   *)
(* in one of two layouts (layout "compact" is what the serialiser writes,  *)
(* layout "spaced" is the same document with other whitespace), or bytes   *)
(* that do not parse as JSON.                                              *)
(***************************************************************************)
Paths == {"/a", "/b"}
Values == 1..MaxValue
KeySets == {{"/a"}, {"/a", "/b"}}
Docs == UNION {[K -> Values] : K \in KeySets}

JsonBody(doc, layout) == [kind |-> "json", doc |-> doc, bytes |-> layout]
NoDoc == [p \in {} |-> 1]
RawBody(bytes) == [kind |-> "raw", doc |-> NoDoc, bytes |-> bytes]
\* make([]byte, 0) and the nil slice: no bytes at all.
EmptyBody == RawBody("")
\* Bytes that are not JSON.
GarbageBody == RawBody("<html>")

Parses(body) == body.kind = "json"
Serialize(doc) == JsonBody(doc, "compact")

\* The JSON type tag of a primitive value: every value of the model is a number.
TypeTag(v) == "number"

\* Strict: same keys, equal values.
StrictEqual(primary, candidate) == primary = candidate

\* Subset: every key of primary is in candidate with an equal value.
SubsetEqual(primary, candidate) ==
    /\ DOMAIN primary \subseteq DOMAIN candidate
    /\ \A p \in DOMAIN primary : primary[p] = candidate[p]

\* Schema: same keys, values of the same type.
SchemaEqual(primary, candidate) ==
    /\ DOMAIN primary = DOMAIN candidate
    /\ \A p \in DOMAIN primary : TypeTag(primary[p]) = TypeTag(candidate[p])

\* json.CompareDocuments(candidate, primary, mode): TRUE when the documents
\* do not differ under the mode; bytes that do not parse are compared as bytes.
CompareDocuments(candidate, primary, mode) ==
    IF ~Parses(candidate) \/ ~Parses(primary)
    THEN candidate = primary
    ELSE CASE mode = "Strict" -> StrictEqual(primary.doc, candidate.doc)
           [] mode = "Subset" -> SubsetEqual(primary.doc, candidate.doc)
           [] mode = "Schema" -> SchemaEqual(primary.doc, candidate.doc)
           [] OTHER -> FALSE

\* The paths at which two documents diverge under Strict: a key held by one
\* only, or held by both with different values.
Diverges(d1, d2, p) ==
    \/ (p \in DOMAIN d1) # (p \in DOMAIN d2)
    \/ p \in DOMAIN d1 /\ p \in DOMAIN d2 /\ d1[p] # d2[p]

DivergingPaths(d1, d2) == {p \in Paths : Diverges(d1, d2, p)}

\* NoiseOperation.Detect(primary, secondary): the noise paths, or an error
\* when a body does not parse.
Detect(primary, secondary) ==
    IF Parses(primary) /\ Parses(secondary)
    THEN [err |-> FALSE, noise |-> DivergingPaths(primary.doc, secondary.doc)]
    ELSE [err |-> TRUE, noise |-> {}]

\* A document without the keys at the given paths; a missing key is ignored.
Without(doc, noise) == [p \in (DOMAIN doc) \ noise |-> doc[p]]

\* What Remove may hand back when it fails: the specification does not say,
\* so both no bytes at all and the bodies it was given are possible.
RemoveFailures(primary, candidate) ==
    { [err |-> TRUE, primary |-> EmptyBody, candidate |-> EmptyBody],
      [err |-> TRUE, primary |-> primary, candidate |-> candidate] }

\* NoiseOperation.Remove(primary, candidate): the set of possible results.
\* Both bodies are parsed, the noise paths deleted and both re-serialised.
Remove(noise, primary, candidate) ==
    IF Parses(primary) /\ Parses(candidate)
    THEN { [err |-> FALSE,
            primary |-> Serialize(Without(primary.doc, noise)),
            candidate |-> Serialize(Without(candidate.doc, noise))] }
    ELSE RemoveFailures(primary, candidate)

(***************************************************************************)
(* The upstream client.  HttpClient.MakeRequest answers with a transport   *)
(* error or with a response; reading the response body may fail too.       *)
(***************************************************************************)
Statuses == {StatusOK, StatusCreated}
Headers == {"text/html", "text/plain"}
NoHeader == ""
SpacedDoc == [p \in Paths |-> 1]
Bodies ==
    {JsonBody(d, "compact") : d \in Docs}
        \cup {JsonBody(SpacedDoc, "spaced"), GarbageBody}

\* What the client may answer: every status with every body, the header
\* Accept varying on one of them; a body that cannot be read to its end; a
\* transport error.
Responses ==
    [err : {"nil"}, readErr : {"nil"}, StatusCode : Statuses, Body : Bodies,
     Header : {"text/html"}]
        \cup [err : {"nil"}, readErr : {"nil"}, StatusCode : {StatusOK},
              Body : {JsonBody(SpacedDoc, "compact")}, Header : Headers]
        \cup [err : {"nil"}, readErr : {"unexpected EOF"}, StatusCode : {StatusOK},
              Body : {EmptyBody}, Header : {"text/html"}]
        \cup [err : {"connection refused"}, readErr : {"nil"}, StatusCode : {0},
              Body : {EmptyBody}, Header : {NoHeader}]

\* getContent with the error of reading the body dropped.
getContent_ReadErrorDropped(resp) ==
    IF resp.err # "nil"
    THEN [body |-> EmptyBody, status |-> 0, header |-> NoHeader, err |-> resp.err]
    ELSE [body |-> resp.Body, status |-> resp.StatusCode, header |-> resp.Header,
          err |-> "nil"]

\* func getContent(r *http.Request, url string) ([]byte, int, http.Header, error)
getContent(resp) ==
    IF resp.err # "nil"
    THEN [body |-> EmptyBody, status |-> 0, header |-> NoHeader, err |-> resp.err]
    ELSE [body |-> resp.Body, status |-> resp.StatusCode, header |-> resp.Header,
          err |-> resp.readErr]

\* CreateUrl(*r.URL, base): the request's path on the upstream's base.
RequestURL == "/"
\* The empty string in the place of a URL.
NoURL == <<>>
CreateUrl(url, base) == <<base, url>>

(***************************************************************************)
(* Configuration and errors.                                               *)
(***************************************************************************)
\* type DiferenciaConfiguration struct; Headers and IgnoreValues are the
\* fields the tests set next to those of core/proxy.go.
AllConfigurations ==
    [Primary : {"http://primary"}, Secondary : {"http://secondary"},
     Candidate : {"http://candidate"}, StoreResults : {"", "results"},
     DifferenceMode : Difference, NoiseDetection : BOOLEAN,
     AllowUnsafeOperations : BOOLEAN, Headers : BOOLEAN,
     IgnoreValues : {{}, {"/b"}}]

\* func (conf DiferenciaConfiguration) IsStoreResultsSet() bool
IsStoreResultsSet(conf) == conf.StoreResults # ""

\* The number of settings other than DifferenceMode and NoiseDetection that
\* differ from the configuration of the tests (proxy_test.go, lines 215-223).
Deviations(conf, m) ==
    Cardinality({f \in {"AllowUnsafeOperations", "StoreResults", "Headers",
                        "IgnoreValues", "Method"} :
        \/ f = "AllowUnsafeOperations" /\ conf.AllowUnsafeOperations
        \/ f = "StoreResults" /\ conf.StoreResults # ""
        \/ f = "Headers" /\ conf.Headers
        \/ f = "IgnoreValues" /\ conf.IgnoreValues # {}
        \/ f = "Method" /\ m # MethodGet})

\* The configurations and requests of the model: every DifferenceMode with
\* every NoiseDetection, and either one further setting changed, or a method
\* other than GET with either value of AllowUnsafeOperations, or POST with
\* results stored.
Requests ==
    {rq \in [conf : AllConfigurations, method : Methods] :
        \/ Deviations(rq.conf, rq.method) <= 1
        \/ /\ Deviations(rq.conf, rq.method) = 2
           /\ rq.method # MethodGet
           /\ rq.conf.AllowUnsafeOperations
        \/ /\ Deviations(rq.conf, rq.method) = 2
           /\ rq.method = MethodPost
           /\ IsStoreResultsSet(rq.conf)}

\* type DiferenciaError struct { code int; message string }
NoError == [kind |-> "nil", code |-> 0, message |-> <<>>]
DiferenciaError(code, message) ==
    [kind |-> "DiferenciaError", code |-> code, message |-> message]

\* isSafeOperation with POST taken for a safe method.
isSafeOperation_PostSafe(m) ==
    m = MethodGet \/ m = MethodOptions \/ m = MethodHead \/ m = MethodPost

\* func isSafeOperation(method string) bool
isSafeOperation(m) == m = MethodGet \/ m = MethodOptions \/ m = MethodHead

\* compareResult with the test of the status codes negated.
compareResult_StatusNegated(conf, candidateBody, primaryBody, candidateStatus, primaryStatus) ==
    IF primaryStatus # candidateStatus
    THEN [equal |-> CompareDocuments(candidateBody, primaryBody,
                                     DifferenceString(conf.DifferenceMode)),
          compared |-> <<[candidate |-> candidateBody, primary |-> primaryBody,
                          mode |-> DifferenceString(conf.DifferenceMode)]>>]
    ELSE [equal |-> FALSE, compared |-> <<>>]

\* func compareResult(candidate, primary []byte, candidateStatus, primaryStatus int) bool
\* The verdict, and the calls to json.CompareDocuments made for it.
compareResult(conf, candidateBody, primaryBody, candidateStatus, primaryStatus) ==
    IF primaryStatus = candidateStatus
    THEN [equal |-> CompareDocuments(candidateBody, primaryBody,
                                     DifferenceString(conf.DifferenceMode)),
          compared |-> <<[candidate |-> candidateBody, primary |-> primaryBody,
                          mode |-> DifferenceString(conf.DifferenceMode)]>>]
    ELSE [equal |-> FALSE, compared |-> <<>>]

(***************************************************************************)
(* The exporter (package exporter).                                        *)
(***************************************************************************)
\* exporter.CreateInteraction(url, body, status)
CreateInteraction(url, body, status) ==
    [url |-> url, body |-> body, status |-> status]
\* var secondary exporter.Interaction
ZeroInteraction == [url |-> NoURL, body |-> EmptyBody, status |-> 0]
\* exporter.CreateInteractions(primary, &secondary, candidate, mode, result)
CreateInteractions(prim, sec, cand, mode, res) ==
    [primary |-> prim, secondary |-> sec, candidate |-> cand, mode |-> mode,
     result |-> res]

(***************************************************************************)
(* The response writer of net/http: the first WriteHeader fixes the status *)
(* that is sent, a later one is superfluous and changes nothing; a write   *)
(* before any WriteHeader sends 200.                                       *)
(***************************************************************************)
NewResponseWriter == [headerCalls |-> <<>>, status |-> 0, body |-> <<>>]
WriteHeader(rw, code) ==
    [rw EXCEPT !.headerCalls = Append(@, code),
               !.status = IF @ = 0 THEN code ELSE @]
Fprintf(rw, text) ==
    [rw EXCEPT !.body = Append(@, text),
               !.status = IF @ = 0 THEN StatusOK ELSE @]

\* func (e *DiferenciaError) Error() string
ErrorString(e) ==
    IF e.kind = "DiferenciaError"
    THEN <<"with message: %s, and code %d", e.message, e.code>>
    ELSE <<e.kind>>

\* diferenciaHandler without the branch for a DiferenciaError.
diferenciaHandler_NoDiferenciaError(rw, res, e) ==
    LET onError ==
            IF e.kind # "nil"
            THEN Fprintf(WriteHeader(rw, StatusInternalServerError), ErrorString(e))
            ELSE rw
    IN  IF res
        THEN WriteHeader(onError, StatusOK)
        ELSE WriteHeader(onError, StatusPreconditionFailed)

\* func diferenciaHandler(w http.ResponseWriter, r *http.Request), from the
\* return of Diferencia on.
diferenciaHandler(rw, res, e) ==
    LET onDiferenciaError ==
            IF e.kind = "DiferenciaError"
            THEN Fprintf(WriteHeader(rw, e.code), e.message)
            ELSE rw
        onError ==
            IF e.kind # "nil"
            THEN Fprintf(WriteHeader(onDiferenciaError, StatusInternalServerError),
                         ErrorString(e))
            ELSE rw
    IN  IF res
        THEN WriteHeader(onError, StatusOK)
        ELSE WriteHeader(onError, StatusPreconditionFailed)

(***************************************************************************)
(* State.                                                                  *)
(***************************************************************************)
VARIABLES
    Config,          \* var Config *DiferenciaConfiguration (line 84)
    pc,              \* where the request is in diferenciaHandler and Diferencia
    method,          \* r.Method (line 97)
    primary,         \* primaryFullURL, primaryBodyContent, primaryStatus (106-108)
    candidate,       \* candidateFullURL, candidateBodyContent, candidateStatus (115-117)
    secondary,       \* the variables declared inside the noise branch (131, 133)
    outerSecondary,  \* secondaryFullURL, secondaryBodyContent, secondaryStatus (125-127)
    result,          \* var result bool (123), then the verdict Diferencia returns
    err,             \* the error Diferencia returns
    calls,           \* the URLs HttpClient.MakeRequest was called with, in order (224)
    answers,         \* the responses HttpClient.MakeRequest delivered, in order (224)
    compared,        \* the calls to json.CompareDocuments (183)
    exported,        \* what exporter.ExportToFile was called with (171)
    exportFailed,    \* whether the exporter failed to persist
    noiseOperation,  \* noiseOperation := json.NoiseOperation{} and what Detect stored (142-143)
    w,               \* the http.ResponseWriter of the request (188)
    used,            \* for each field of Config, the values the request has read from it
    published,       \* the configurations that have been live since the request came in
    updates,         \* the calls to UpdateConfiguration: the patch and the error returned
    interactions     \* primary, secondary, candidate and interactions of the export (161-169)

vars == <<Config, pc, method, primary, candidate, secondary, outerSecondary,
          result, err, calls, answers, compared, exported, exportFailed, noiseOperation, w,
          used, published, updates, interactions>>

\* The fields of Config that Diferencia reads.
ConfigFields ==
    {"AllowUnsafeOperations", "Primary", "Candidate", "Secondary", "NoiseDetection",
     "DifferenceMode", "StoreResults"}

\* The request reads the given fields of the live configuration.
Reads(fields) ==
    [f \in ConfigFields |-> IF f \in fields THEN used[f] \cup {Config[f]} ELSE used[f]]

\* The local variables Diferencia holds for one upstream: the URL called and
\* what getContent returned; answer is what the client did (its error and the
\* error of reading the body), kept to state what happened to the call.
NoContent ==
    [url |-> NoURL, body |-> EmptyBody, status |-> 0, header |-> NoHeader,
     answer |-> [err |-> "nil", readErr |-> "nil"]]

Content(url, resp, got) ==
    [url |-> url, body |-> got.body, status |-> got.status, header |-> got.header,
     answer |-> [err |-> resp.err, readErr |-> resp.readErr]]

\* An outcome of the noise branch: whether Diferencia returns here, the
\* verdict, the error, the calls to json.CompareDocuments and the noise
\* Detect stored.
\* Lines 146 and 153: return false and a DiferenciaError with code 400.
noiseError(message, noise) ==
    [returns |-> TRUE, res |-> FALSE,
     e |-> DiferenciaError(StatusBadRequest, message),
     compared |-> <<>>, noise |-> noise]

\* Lines 148-150: Remove, its error dropped, and the comparison of the
\* bodies it returned.
noiseCompared(conf, candidateWithoutNoise, primaryWithoutNoise, cand, prim, noise) ==
    LET cmp == compareResult(conf, candidateWithoutNoise, primaryWithoutNoise,
                             cand.status, prim.status)
    IN  [returns |-> FALSE, res |-> cmp.equal, e |-> NoError,
         compared |-> cmp.compared, noise |-> noise]

\* noiseCancellation with the arguments of compareResult in the other order.
noiseCancellation_Swapped(conf, prim, cand, sec) ==
    IF prim.status = sec.status
    THEN LET detected == Detect(prim.body, sec.body)
         IN  IF detected.err
             THEN {noiseError(<<"Error detecting noise between %s and %s. (%s)",
                                prim.url, sec.url, "invalid JSON">>, detected.noise)}
             ELSE {noiseCompared(conf, clean.primary, clean.candidate, cand, prim,
                                 detected.noise) :
                   clean \in Remove(detected.noise, prim.body, cand.body)}
    ELSE {noiseError(<<"Status code between %s(%d) and %s(%d) are different",
                       prim.url, prim.status, sec.url, sec.status>>, {})}

\* noiseCancellation with the error of Detect dropped.
noiseCancellation_DetectErrorDropped(conf, prim, cand, sec) ==
    IF prim.status = sec.status
    THEN LET detected == Detect(prim.body, sec.body)
         IN  {noiseCompared(conf, clean.candidate, clean.primary, cand, prim,
                            detected.noise) :
              clean \in Remove(detected.noise, prim.body, cand.body)}
    ELSE {noiseError(<<"Status code between %s(%d) and %s(%d) are different",
                       prim.url, prim.status, sec.url, sec.status>>, {})}

\* noiseCancellation without the comparison of the status codes.
noiseCancellation_StatusUnchecked(conf, prim, cand, sec) ==
    LET detected == Detect(prim.body, sec.body)
    IN  IF detected.err
        THEN {noiseError(<<"Error detecting noise between %s and %s. (%s)",
                           prim.url, sec.url, "invalid JSON">>, detected.noise)}
        ELSE {noiseCompared(conf, clean.candidate, clean.primary, cand, prim,
                            detected.noise) :
              clean \in Remove(detected.noise, prim.body, cand.body)}

\* Lines 141-154: with the answer of Secondary, the noise branch either
\* returns an error or compares the bodies Remove handed back.  The set of
\* its possible outcomes.
noiseCancellation(conf, prim, cand, sec) ==
    IF prim.status = sec.status
    THEN LET detected == Detect(prim.body, sec.body)
         IN  IF detected.err
             THEN {noiseError(<<"Error detecting noise between %s and %s. (%s)",
                                prim.url, sec.url, "invalid JSON">>, detected.noise)}
             ELSE {noiseCompared(conf, clean.candidate, clean.primary, cand, prim,
                                 detected.noise) :
                   clean \in Remove(detected.noise, prim.body, cand.body)}
    ELSE {noiseError(<<"Status code between %s(%d) and %s(%d) are different",
                       prim.url, prim.status, sec.url, sec.status>>, {})}

Init ==
    /\ \E rq \in Requests :
          /\ Config = rq.conf
          /\ method = rq.method
    /\ pc = "idle"
    /\ primary = NoContent
    /\ candidate = NoContent
    /\ secondary = NoContent
    /\ outerSecondary = NoContent
    /\ result = FALSE
    /\ err = NoError
    /\ calls = <<>>
    /\ answers = <<>>
    /\ compared = <<>>
    /\ exported = <<>>
    /\ exportFailed = FALSE
    /\ noiseOperation = {}
    /\ w = NewResponseWriter
    /\ used = [f \in ConfigFields |-> {}]
    /\ published = <<Config>>
    /\ updates = <<>>
    /\ interactions = CreateInteractions(ZeroInteraction, ZeroInteraction,
                                         ZeroInteraction, "", FALSE)

\* Diferencia returns (res, e) to the handler.
Return(res, e) ==
    /\ result' = res
    /\ err' = e
    /\ pc' = "return"

\* Gate letting every method through.
Gate_Unchecked ==
    /\ pc = "idle"
    /\ IF FALSE
       THEN Return(FALSE, DiferenciaError(StatusMethodNotAllowed,
                <<"Unsafe operations are not allowed and %s method has been received", method>>))
       ELSE /\ pc' = "primary"
            /\ UNCHANGED <<result, err>>
    /\ used' = Reads({"AllowUnsafeOperations"})
    /\ UNCHANGED <<Config, method, primary, candidate, secondary, outerSecondary,
                   calls, answers, compared, exported, exportFailed, noiseOperation, w,
                   published, updates, interactions>>

\* Lines 95-100: the handler calls Diferencia, which applies the safety gate.
Gate ==
    /\ pc = "idle"
    /\ IF ~Config.AllowUnsafeOperations /\ ~isSafeOperation(method)
       THEN Return(FALSE, DiferenciaError(StatusMethodNotAllowed,
                <<"Unsafe operations are not allowed and %s method has been received", method>>))
       ELSE /\ pc' = "primary"
            /\ UNCHANGED <<result, err>>
    /\ used' = Reads({"AllowUnsafeOperations"})
    /\ UNCHANGED <<Config, method, primary, candidate, secondary, outerSecondary,
                   calls, answers, compared, exported, exportFailed, noiseOperation, w,
                   published, updates, interactions>>

\* Lines 106-108: the URL of Primary is built from Config.Primary and the
\* request is sent; Diferencia waits for the answer.
CallPrimary ==
    /\ pc = "primary"
    /\ calls' = Append(calls, CreateUrl(RequestURL, Config.Primary))
    /\ used' = Reads({"Primary"})
    /\ pc' = "primaryWait"
    /\ UNCHANGED <<Config, method, primary, candidate, secondary, outerSecondary,
                   result, err, answers, compared, exported, exportFailed,
                   noiseOperation, w, published, updates, interactions>>

\* Lines 108-112: the answer of Primary, read after the wait.
GetPrimary(resp) ==
    /\ pc = "primaryWait"
    /\ LET url == calls[Len(calls)]
           got == getContent(resp)
       IN  /\ answers' = Append(answers, resp)
           /\ primary' = Content(url, resp, got)
           /\ IF got.err # "nil"
              THEN Return(FALSE, DiferenciaError(StatusServiceUnavailable,
                       <<"Error while connecting to Primary site (%s) with %s", url, got.err>>))
              ELSE /\ pc' = "candidate"
                   /\ UNCHANGED <<result, err>>
    /\ UNCHANGED <<Config, method, candidate, secondary, outerSecondary, calls,
                   compared, exported, exportFailed, noiseOperation, w, used,
                   published, updates, interactions>>

\* CallCandidate sending its call to Primary a second time.
CallCandidate_PrimaryCalledAgain ==
    /\ pc = "candidate"
    /\ calls' = Append(calls, CreateUrl(RequestURL, Config.Primary))
    /\ used' = Reads({"Candidate"})
    /\ pc' = "candidateWait"
    /\ UNCHANGED <<Config, method, primary, candidate, secondary, outerSecondary,
                   result, err, answers, compared, exported, exportFailed,
                   noiseOperation, w, published, updates, interactions>>

\* Lines 115-117: the URL of Candidate is built from Config.Candidate and the
\* request is sent; Diferencia waits for the answer.
CallCandidate ==
    /\ pc = "candidate"
    /\ calls' = Append(calls, CreateUrl(RequestURL, Config.Candidate))
    /\ used' = Reads({"Candidate"})
    /\ pc' = "candidateWait"
    /\ UNCHANGED <<Config, method, primary, candidate, secondary, outerSecondary,
                   result, err, answers, compared, exported, exportFailed,
                   noiseOperation, w, published, updates, interactions>>

\* GetCandidate going on to Secondary whatever NoiseDetection is.
GetCandidate_NoiseUnchecked(resp) ==
    /\ pc = "candidateWait"
    /\ LET url == calls[Len(calls)]
           got == getContent(resp)
       IN  /\ answers' = Append(answers, resp)
           /\ candidate' = Content(url, resp, got)
           /\ IF got.err # "nil"
              THEN /\ Return(FALSE, DiferenciaError(StatusServiceUnavailable,
                          <<"Error while connecting to Candidate site (%s) with %s",
                            url, got.err>>))
                   /\ UNCHANGED used
              ELSE /\ pc' = "secondary"
                   /\ used' = Reads({"NoiseDetection"})
                   /\ UNCHANGED <<result, err>>
    /\ UNCHANGED <<Config, method, primary, secondary, outerSecondary, calls,
                   compared, exported, exportFailed, noiseOperation, w, published,
                   updates, interactions>>

\* Lines 117-129: the answer of Candidate, read after the wait, and the test
\* of Config.NoiseDetection.
GetCandidate(resp) ==
    /\ pc = "candidateWait"
    /\ LET url == calls[Len(calls)]
           got == getContent(resp)
       IN  /\ answers' = Append(answers, resp)
           /\ candidate' = Content(url, resp, got)
           /\ IF got.err # "nil"
              THEN /\ Return(FALSE, DiferenciaError(StatusServiceUnavailable,
                          <<"Error while connecting to Candidate site (%s) with %s",
                            url, got.err>>))
                   /\ UNCHANGED used
              ELSE /\ pc' = IF Config.NoiseDetection THEN "secondary" ELSE "compare"
                   /\ used' = Reads({"NoiseDetection"})
                   /\ UNCHANGED <<result, err>>
    /\ UNCHANGED <<Config, method, primary, secondary, outerSecondary, calls,
                   compared, exported, exportFailed, noiseOperation, w, published,
                   updates, interactions>>

\* Lines 155-158: the comparison without noise cancellation; compareResult
\* reads Config.DifferenceMode (line 183) when the status codes are equal.
CompareWithoutNoise ==
    /\ pc = "compare"
    /\ LET cmp == compareResult(Config, candidate.body, primary.body,
                                candidate.status, primary.status)
       IN  /\ result' = cmp.equal
           /\ compared' = cmp.compared
           /\ used' = Reads(IF cmp.compared # <<>> THEN {"DifferenceMode"} ELSE {})
    /\ pc' = "store"
    /\ UNCHANGED <<Config, method, primary, candidate, secondary, outerSecondary,
                   err, calls, answers, exported, exportFailed, noiseOperation, w,
                   published, updates, interactions>>

\* Lines 131-133: the URL of Secondary is built from Config.Secondary and the
\* request is sent; Diferencia waits for the answer.
CallSecondary ==
    /\ pc = "secondary"
    /\ calls' = Append(calls, CreateUrl(RequestURL, Config.Secondary))
    /\ used' = Reads({"Secondary"})
    /\ pc' = "secondaryWait"
    /\ UNCHANGED <<Config, method, primary, candidate, secondary, outerSecondary,
                   result, err, answers, compared, exported, exportFailed,
                   noiseOperation, w, published, updates, interactions>>

\* Lines 133-154: the answer of Secondary, read after the wait, noise
\* detection and removal, and the comparison of the bodies Remove returned;
\* compareResult reads Config.DifferenceMode (line 183).
GetSecondary(resp) ==
    /\ pc = "secondaryWait"
    /\ LET url == calls[Len(calls)]
           got == getContent(resp)
           sec == Content(url, resp, got)
       IN  /\ answers' = Append(answers, resp)
           /\ secondary' = sec
           /\ IF got.err # "nil"
              THEN /\ Return(FALSE, DiferenciaError(StatusServiceUnavailable,
                          <<"Error while connecting to Secondary site (%s) with error %s",
                            candidate.url, got.err>>))
                   /\ UNCHANGED <<compared, noiseOperation, used>>
              ELSE \E out \in noiseCancellation(Config, primary, candidate, sec) :
                      /\ noiseOperation' = out.noise
                      /\ compared' = out.compared
                      /\ used' = Reads(IF out.compared # <<>>
                                       THEN {"DifferenceMode"} ELSE {})
                      /\ IF out.returns
                         THEN Return(out.res, out.e)
                         ELSE /\ result' = out.res
                              /\ pc' = "store"
                              /\ UNCHANGED err
    /\ UNCHANGED <<Config, method, primary, candidate, outerSecondary, calls,
                   exported, exportFailed, w, published, updates, interactions>>

\* Lines 160-163 and 174-176: the test of Config.StoreResults; with results
\* stored the interactions of Primary and Candidate and the zero value of
\* the one of Secondary, else the return of the verdict.
Store ==
    /\ pc = "store"
    /\ used' = Reads({"StoreResults"})
    /\ IF IsStoreResultsSet(Config)
       THEN /\ interactions' =
                 CreateInteractions(
                     CreateInteraction(primary.url, primary.body, primary.status),
                     ZeroInteraction,
                     CreateInteraction(candidate.url, candidate.body, candidate.status),
                     "", FALSE)
            /\ pc' = "storeSecondary"
            /\ UNCHANGED <<result, err>>
       ELSE /\ Return(result, NoError)
            /\ UNCHANGED interactions
    /\ UNCHANGED <<Config, method, primary, candidate, secondary, outerSecondary,
                   calls, answers, compared, exported, exportFailed, noiseOperation,
                   w, published, updates>>

\* Lines 165-167: with Config.NoiseDetection the interaction of Secondary,
\* built from the variables declared at lines 125-127.
StoreSecondary ==
    /\ pc = "storeSecondary"
    /\ used' = Reads({"NoiseDetection"})
    /\ interactions' =
          IF Config.NoiseDetection
          THEN [interactions EXCEPT !.secondary =
                    CreateInteraction(outerSecondary.url, outerSecondary.body,
                                      outerSecondary.status)]
          ELSE interactions
    /\ pc' = "storeInteractions"
    /\ UNCHANGED <<Config, method, primary, candidate, secondary, outerSecondary,
                   result, err, calls, answers, compared, exported, exportFailed,
                   noiseOperation, w, published, updates>>

\* StoreInteractions handing on the zero value of the verdict.
StoreInteractions_VerdictNotExported ==
    /\ pc = "storeInteractions"
    /\ used' = Reads({"DifferenceMode"})
    /\ interactions' =
          CreateInteractions(interactions.primary, interactions.secondary,
                             interactions.candidate,
                             DifferenceString(Config.DifferenceMode), FALSE)
    /\ pc' = "export"
    /\ UNCHANGED <<Config, method, primary, candidate, secondary, outerSecondary,
                   result, err, calls, answers, compared, exported, exportFailed,
                   noiseOperation, w, published, updates>>

\* Line 169: the interactions, with the name of Config.DifferenceMode and
\* the verdict.
StoreInteractions ==
    /\ pc = "storeInteractions"
    /\ used' = Reads({"DifferenceMode"})
    /\ interactions' =
          CreateInteractions(interactions.primary, interactions.secondary,
                             interactions.candidate,
                             DifferenceString(Config.DifferenceMode), result)
    /\ pc' = "export"
    /\ UNCHANGED <<Config, method, primary, candidate, secondary, outerSecondary,
                   result, err, calls, answers, compared, exported, exportFailed,
                   noiseOperation, w, published, updates>>

\* Line 171: exporter.ExportToFile is called with Config.StoreResults and
\* the interactions; Diferencia waits for the write.
ExportToFile ==
    /\ pc = "export"
    /\ used' = Reads({"StoreResults"})
    /\ exported' = Append(exported, [path |-> Config.StoreResults,
                                     interactions |-> interactions])
    /\ pc' = "exportWait"
    /\ UNCHANGED <<Config, method, primary, candidate, secondary, outerSecondary,
                   result, err, calls, answers, compared, exportFailed,
                   noiseOperation, w, published, updates, interactions>>

\* ExportToFileReturns with a failure of the exporter returned to the caller
\* as an error.
ExportToFileReturns_ErrorReturned(failed) ==
    /\ pc = "exportWait"
    /\ exportFailed' = failed
    /\ IF failed
       THEN Return(FALSE, DiferenciaError(StatusInternalServerError,
                <<"Error while exporting to %s", exported[Len(exported)].path>>))
       ELSE Return(result, NoError)
    /\ UNCHANGED <<Config, method, primary, candidate, secondary, outerSecondary,
                   calls, answers, compared, exported, noiseOperation, w, used,
                   published, updates, interactions>>

\* Lines 171-176: exporter.ExportToFile comes back, having written or
\* failed; what it returns is dropped and the verdict is returned.
ExportToFileReturns(failed) ==
    /\ pc = "exportWait"
    /\ exportFailed' = failed
    /\ Return(result, NoError)
    /\ UNCHANGED <<Config, method, primary, candidate, secondary, outerSecondary,
                   calls, answers, compared, exported, noiseOperation, w, used,
                   published, updates, interactions>>

\* Lines 190-206: the handler writes the response.
Respond ==
    /\ pc = "return"
    /\ w' = diferenciaHandler(w, result, err)
    /\ pc' = "done"
    /\ UNCHANGED <<Config, method, primary, candidate, secondary, outerSecondary,
                   result, err, calls, answers, compared, exported, exportFailed,
                   noiseOperation, used, published, updates, interactions>>

Next ==
    \/ Gate
    \/ CallPrimary
    \/ \E resp \in Responses : GetPrimary(resp)
    \/ CallCandidate
    \/ \E resp \in Responses : GetCandidate(resp)
    \/ CompareWithoutNoise
    \/ CallSecondary
    \/ \E resp \in Responses : GetSecondary(resp)
    \/ Store
    \/ StoreSecondary
    \/ StoreInteractions
    \/ ExportToFile
    \/ \E failed \in BOOLEAN : ExportToFileReturns(failed)
    \/ Respond

Spec == Init /\ [][Next]_vars

(***************************************************************************)
(* The live configuration changing under a request.  UpdateConfiguration   *)
(* (section 4.6 of the specification; the tests at proxy_test.go, lines    *)
(* 36-161) parses every field present in the patch and commits all of them *)
(* in one step when all parse; an absent field is the empty string.  It    *)
(* runs on the admin interface, at any moment while a request is served.   *)
(***************************************************************************)
MaxUpdates == 1

LocalHost == "http://localhost"

\* The names a patch may give as Mode: those of the three modes, the name
\* String gives to a value that is no mode, and the name of the tests.
ModeNames == {"Strict", "Subset", "Schema", "Unknown", "incorrect"}

\* The patches: the three upstreams patched together or not at all, a Mode
\* and a NoiseDetection that parse or do not.
Patches ==
    {patch \in [Primary : {"", LocalHost}, Secondary : {"", LocalHost},
                Candidate : {"", LocalHost}, Mode : {""} \cup ModeNames,
                NoiseDetection : {"", "true", "incorrect"}] :
        /\ patch.Primary = patch.Secondary
        /\ patch.Primary = patch.Candidate}

\* The strict boolean literals "true" and "false".
ParseBool(str) == [value |-> str = "true", err |-> str \notin {"true", "false"}]

\* Whether a field present in the patch does not parse.
ParseFails(patch) ==
    \/ patch.Mode # "" /\ NewDifference(patch.Mode).err
    \/ patch.NoiseDetection # "" /\ ParseBool(patch.NoiseDetection).err

\* The configuration with every field present in the patch replaced.
Patched(conf, patch) ==
    [conf EXCEPT
        !.Primary = IF patch.Primary # "" THEN patch.Primary ELSE @,
        !.Secondary = IF patch.Secondary # "" THEN patch.Secondary ELSE @,
        !.Candidate = IF patch.Candidate # "" THEN patch.Candidate ELSE @,
        !.DifferenceMode =
            IF patch.Mode # "" THEN NewDifference(patch.Mode).difference ELSE @,
        !.NoiseDetection =
            IF patch.NoiseDetection # "" THEN ParseBool(patch.NoiseDetection).value
            ELSE @]

\* func (conf *DiferenciaConfiguration) UpdateConfiguration(update) error
UpdateConfiguration(patch) ==
    /\ Len(updates) < MaxUpdates
    /\ pc # "done"
    /\ IF ParseFails(patch)
       THEN /\ updates' = Append(updates, [patch |-> patch, err |-> "error"])
            /\ UNCHANGED <<Config, published>>
       ELSE /\ Config' = Patched(Config, patch)
            /\ published' = Append(published, Config')
            /\ updates' = Append(updates, [patch |-> patch, err |-> "nil"])
    /\ UNCHANGED <<pc, method, primary, candidate, secondary, outerSecondary,
                   result, err, calls, answers, compared, exported, exportFailed,
                   noiseOperation, w, used, interactions>>

\* The requests under which the configuration is updated: those of the
\* tests' configuration with Strict, and storing results or not.
InitUpdate ==
    /\ Init
    /\ Config.DifferenceMode = Strict
    /\ ~Config.Headers
    /\ Config.IgnoreValues = {}

\* What the upstreams answer while the configuration is updated: one body
\* with either status, a body that cannot be read, a transport error.
ResponsesUpdate ==
    {resp \in Responses :
        /\ resp.Body \in {JsonBody(SpacedDoc, "compact"), EmptyBody}
        /\ resp.Header \in {"text/html", NoHeader}}

NextUpdate ==
    \/ Gate
    \/ CallPrimary
    \/ \E resp \in ResponsesUpdate : GetPrimary(resp)
    \/ CallCandidate
    \/ \E resp \in ResponsesUpdate : GetCandidate(resp)
    \/ CompareWithoutNoise
    \/ CallSecondary
    \/ \E resp \in ResponsesUpdate : GetSecondary(resp)
    \/ Store
    \/ StoreSecondary
    \/ StoreInteractions
    \/ ExportToFile
    \/ \E failed \in BOOLEAN : ExportToFileReturns(failed)
    \/ Respond
    \/ \E patch \in Patches : UpdateConfiguration(patch)

SpecUpdate == InitUpdate /\ [][NextUpdate]_vars

(***************************************************************************)
(* Vocabulary of the properties.                                           *)
(***************************************************************************)
\* Diferencia has returned its verdict and error to the handler.
Returned == pc \in {"return", "done"}

\* The upstream was called and answered with a readable body.
Answered(c) ==
    c.url # NoURL /\ c.answer.err = "nil" /\ c.answer.readErr = "nil"

\* The upstream was called and the call failed: a transport error or a body
\* that could not be read.
Failed(c) ==
    c.url # NoURL /\ (c.answer.err # "nil" \/ c.answer.readErr # "nil")

SafeMethods == {"GET", "OPTIONS", "HEAD"}

Fails(code) == err.kind = "DiferenciaError" /\ err.code = code /\ result = FALSE

\* The bodies the comparison is meant to run on: with noise detection the
\* bodies Remove hands back for the noise Detect stored, else the bodies of
\* Primary and Candidate as received.
ComparedBodies ==
    IF Config.NoiseDetection
    THEN {[primary |-> clean.primary, candidate |-> clean.candidate] :
          clean \in Remove(noiseOperation, primary.body, candidate.body)}
    ELSE {[primary |-> primary.body, candidate |-> candidate.body]}

(***************************************************************************)
(* C1.  A request whose method is not GET, OPTIONS or HEAD, received while *)
(* AllowUnsafeOperations is false, ends with a MethodNotAllowed (405)      *)
(* error and the verdict false.                                            *)
(***************************************************************************)
C1_UnsafeMethodRejected ==
    (Returned /\ ~Config.AllowUnsafeOperations /\ method \notin SafeMethods)
        => Fails(405)

C1_Witness ==
    /\ pc = "done"
    /\ method = "POST"
    /\ ~Config.AllowUnsafeOperations
    /\ err.code = 405

(***************************************************************************)
(* C2.  When the call to Primary or to Candidate fails, or NoiseDetection  *)
(* is true and the call to Secondary fails (transport error or unreadable  *)
(* body), Diferencia fails with ServiceUnavailable (503) and the verdict   *)
(* false, and json.CompareDocuments has not been called.                   *)
(***************************************************************************)
C2_UpstreamFailureUnavailable ==
    (Returned /\ (\/ Failed(primary)
                  \/ Failed(candidate)
                  \/ Config.NoiseDetection /\ Failed(secondary)))
        => Fails(503) /\ compared = <<>>

C2_Witness ==
    /\ pc = "done"
    /\ Config.NoiseDetection
    /\ Answered(primary)
    /\ Answered(candidate)
    /\ secondary.answer.readErr # "nil"
    /\ err.code = 503

(***************************************************************************)
(* C3.  For a request that completes without error the verdict is true    *)
(* exactly when no enabled axis differs: the status codes of Primary and   *)
(* Candidate are equal, the comparison of the (possibly noise-cleaned)     *)
(* bodies under the configured DifferenceMode reports no difference, and,  *)
(* when Headers is true, the headers do not differ.                        *)
(***************************************************************************)
C3_VerdictIffNoEnabledAxisDiffers ==
    (Returned /\ err.kind = "nil")
        => \E b \in ComparedBodies :
              result <=> /\ primary.status = candidate.status
                         /\ CompareDocuments(b.candidate, b.primary,
                                DifferenceString(Config.DifferenceMode))
                         /\ Config.Headers => primary.header = candidate.header

(***************************************************************************)
(* C4.  As claimed: whenever Primary and Candidate answer with the same    *)
(* bytes and the same status code, the verdict is true, for every          *)
(* DifferenceMode and with NoiseDetection true or false.                   *)
(***************************************************************************)
C4_IdenticalAlwaysTrue ==
    (/\ Returned
     /\ Answered(primary)
     /\ Answered(candidate)
     /\ primary.body = candidate.body
     /\ primary.status = candidate.status)
        => result = TRUE

(***************************************************************************)
(* C4, amended.  Whenever Primary and Candidate answer with the same bytes *)
(* and the same status code, every request that ends without error has    *)
(* the verdict true, for every DifferenceMode; without NoiseDetection it   *)
(* always ends so, and with NoiseDetection the only other ends are the     *)
(* errors 503 and 400 of the noise branch.                                 *)
(***************************************************************************)
C4_IdenticalTrueUnlessNoiseError ==
    (/\ Returned
     /\ Answered(primary)
     /\ Answered(candidate)
     /\ primary.body = candidate.body
     /\ primary.status = candidate.status)
        => IF err.kind = "nil"
           THEN result = TRUE
           ELSE /\ Config.NoiseDetection
                /\ ~Answered(secondary) \/ secondary.status # primary.status
                      \/ ~Parses(primary.body) \/ ~Parses(secondary.body)
                /\ Fails(503) \/ Fails(400)

C4_Witness ==
    /\ pc = "done"
    /\ Config.NoiseDetection
    /\ Config.DifferenceMode = Subset
    /\ Answered(primary)
    /\ Answered(candidate)
    /\ primary.body = candidate.body
    /\ primary.status = candidate.status
    /\ secondary.body # primary.body
    /\ err.kind = "nil"
    /\ result = TRUE

(***************************************************************************)
(* C5.  When the status codes of Primary and Candidate differ, Diferencia  *)
(* returns no error, the verdict is false, and the bodies of Primary and   *)
(* Candidate are still compared.                                           *)
(***************************************************************************)
C5_StatusDifferenceStillCompares ==
    (/\ Returned
     /\ Answered(primary)
     /\ Answered(candidate)
     /\ primary.status # candidate.status)
        => /\ err.kind = "nil"
           /\ result = FALSE
           /\ Len(compared) >= 1

(***************************************************************************)
(* C6.  With NoiseDetection true and the three upstream calls answered, a  *)
(* Primary status code other than the Secondary status code ends the       *)
(* request with BadRequest (400) and the verdict false, whatever Candidate *)
(* returned.                                                               *)
(***************************************************************************)
C6_SecondaryStatusMismatchBadRequest ==
    (/\ Returned
     /\ Config.NoiseDetection
     /\ Answered(primary)
     /\ Answered(candidate)
     /\ Answered(secondary)
     /\ primary.status # secondary.status)
        => Fails(400)

C6_Witness ==
    /\ pc = "done"
    /\ Config.NoiseDetection
    /\ Answered(secondary)
    /\ primary.status # secondary.status
    /\ candidate.status = secondary.status
    /\ candidate.body = secondary.body
    /\ err.code = 400

(***************************************************************************)
(* C7.  With NoiseDetection true and equal status codes of Primary and     *)
(* Secondary, an error of noise detection (a body that does not parse)     *)
(* ends the request with BadRequest (400) and the verdict false, and no    *)
(* comparison is made.                                                     *)
(***************************************************************************)
C7_DetectErrorBadRequest ==
    (/\ Returned
     /\ Config.NoiseDetection
     /\ Answered(primary)
     /\ Answered(candidate)
     /\ Answered(secondary)
     /\ primary.status = secondary.status
     /\ Detect(primary.body, secondary.body).err)
        => Fails(400) /\ compared = <<>>

C7_Witness ==
    /\ pc = "done"
    /\ Config.NoiseDetection
    /\ Answered(secondary)
    /\ primary.status = secondary.status
    /\ Parses(primary.body)
    /\ ~Parses(secondary.body)
    /\ err.code = 400

(***************************************************************************)
(* C8.  With NoiseDetection true and equal status codes on the three       *)
(* upstreams, a Candidate whose body differs from the body of Primary only *)
(* at paths that differ between Primary and Secondary or that IgnoreValues *)
(* names yields the verdict true.                                          *)
(***************************************************************************)
C8_NoiseAndIgnoredPathsRemoved ==
    (/\ Returned
     /\ Config.NoiseDetection
     /\ Answered(primary)
     /\ Answered(candidate)
     /\ Answered(secondary)
     /\ primary.status = secondary.status
     /\ primary.status = candidate.status
     /\ Parses(primary.body)
     /\ Parses(candidate.body)
     /\ Parses(secondary.body)
     /\ DivergingPaths(primary.body.doc, candidate.body.doc)
            \subseteq DivergingPaths(primary.body.doc, secondary.body.doc)
                          \cup Config.IgnoreValues)
        => err.kind = "nil" /\ result = TRUE

(***************************************************************************)
(* C9.  As claimed: with NoiseDetection true and a Secondary that returns  *)
(* the status and the bytes of Primary, no noise is detected and the       *)
(* verdict and error are those of the request without NoiseDetection: no   *)
(* error and the comparison of the bodies as received.                     *)
(***************************************************************************)
C9_SecondaryEqualSameAsNoNoise ==
    (/\ Returned
     /\ Config.NoiseDetection
     /\ Answered(primary)
     /\ Answered(candidate)
     /\ Answered(secondary)
     /\ secondary.status = primary.status
     /\ secondary.body = primary.body)
        => /\ noiseOperation = {}
           /\ err.kind = "nil"
           /\ result = compareResult(Config, candidate.body, primary.body,
                                     candidate.status, primary.status).equal

(***************************************************************************)
(* C9, amended.  With NoiseDetection true and a Secondary that returns the *)
(* status and the bytes of Primary, no noise is detected; when the bodies  *)
(* of Primary and Candidate parse as JSON the verdict and error are those  *)
(* of the request without NoiseDetection, and when the body of Primary     *)
(* does not parse the request fails with BadRequest (400).                 *)
(***************************************************************************)
C9_SecondaryEqualSameAsNoNoiseWhenParsed ==
    (/\ Returned
     /\ Config.NoiseDetection
     /\ Answered(primary)
     /\ Answered(candidate)
     /\ Answered(secondary)
     /\ secondary.status = primary.status
     /\ secondary.body = primary.body)
        => /\ noiseOperation = {}
           /\ (Parses(primary.body) /\ Parses(candidate.body))
                => /\ err.kind = "nil"
                   /\ result = compareResult(Config, candidate.body, primary.body,
                                  candidate.status, primary.status).equal
           /\ ~Parses(primary.body) => Fails(400)

C9_Witness ==
    /\ pc = "done"
    /\ Config.NoiseDetection
    /\ Config.DifferenceMode = Subset
    /\ Answered(secondary)
    /\ secondary.status = primary.status
    /\ secondary.body = primary.body
    /\ Parses(primary.body)
    /\ Parses(candidate.body)
    /\ candidate.body # primary.body
    /\ result = TRUE

(***************************************************************************)
(* C10.  The status code sent to the calling client follows from the       *)
(* outcome of Diferencia: 200 for the verdict true, 412 for the verdict    *)
(* false without error, 405 for a rejected unsafe method, 503 for a failed *)
(* upstream call, 400 for a failed precondition of noise detection, and    *)
(* 500 for an error that is not a DiferenciaError.                         *)
(***************************************************************************)
OtherError == [kind |-> "error", code |-> 0, message |-> <<>>]

C10_StatusFollowsOutcome ==
    /\ pc = "done" =>
        /\ (err.kind = "nil" /\ result) => w.status = 200
        /\ (err.kind = "nil" /\ ~result) => w.status = 412
        /\ (~Config.AllowUnsafeOperations /\ method \notin SafeMethods)
              => w.status = 405
        /\ (Failed(primary) \/ Failed(candidate) \/ Failed(secondary))
              => w.status = 503
        /\ (/\ Config.NoiseDetection
            /\ Answered(secondary)
            /\ \/ primary.status # secondary.status
               \/ Detect(primary.body, secondary.body).err)
              => w.status = 400
        /\ w.status \in {200, 412, 405, 503, 400}
    /\ \A res \in BOOLEAN :
          diferenciaHandler(NewResponseWriter, res, OtherError).status = 500

C10_Witness ==
    /\ pc = "done"
    /\ err.code = 400
    /\ w.status = 400
    /\ Len(w.headerCalls) > 1

(***************************************************************************)
(* C11.  The response body the handler writes is exactly the error message *)
(* when Diferencia returns an error, and is empty when Diferencia returns  *)
(* a verdict without error (200 or 412).                                   *)
(***************************************************************************)
C11_BodyIsMessageOrEmpty ==
    pc = "done" =>
        IF err.kind = "nil" THEN w.body = <<>> ELSE w.body = <<err.message>>

\* The half of C11 about verdicts: nothing is written after a verdict.
C11_VerdictBodyEmpty ==
    (pc = "done" /\ err.kind = "nil") => w.body = <<>>

(***************************************************************************)
(* C12.  While the live configuration is updated during a request, every   *)
(* configuration value the request uses (AllowUnsafeOperations, Primary,   *)
(* Candidate, Secondary, NoiseDetection, DifferenceMode, StoreResults)     *)
(* comes from one single snapshot: one of the configurations that have     *)
(* been live holds every value the request has read.                       *)
(***************************************************************************)
C12_SingleSnapshot ==
    \E i \in 1..Len(published) :
        \A f \in ConfigFields : \A v \in used[f] : published[i][f] = v

(***************************************************************************)
(* C14.  The verdict and the error Diferencia returns are the same whether *)
(* the export of the interactions succeeds or fails: from the comparison   *)
(* on, the step that exports returns the verdict already computed and no   *)
(* error, whatever the exporter answers.                                   *)
(***************************************************************************)
C14_ExportFailureNotPropagated ==
    [][(pc \in {"store", "storeSecondary", "storeInteractions", "export",
                "exportWait"})
          => (result' = result /\ err' = NoError)]_vars

\* An export that failed, after a comparison that found no difference.
C14_Witness ==
    /\ Returned
    /\ Len(exported) = 1
    /\ exportFailed
    /\ result = TRUE
    /\ err = NoError

(***************************************************************************)
(* C15.  When StoreResults is non-empty and NoiseDetection is true, the    *)
(* Secondary interaction handed to the exporter carries the URL that was   *)
(* called on Secondary and the body and the status code Secondary returned *)
(* for the request.                                                        *)
(***************************************************************************)
C15_SecondaryInteractionIsActual ==
    \A i \in 1..Len(exported) :
        (IsStoreResultsSet(Config) /\ Config.NoiseDetection) =>
            /\ Answered(secondary)
            /\ exported[i].interactions.secondary =
                  CreateInteraction(secondary.url, secondary.body, secondary.status)

(***************************************************************************)
(* C16.  With the comparison of headers enabled (Headers true), a request  *)
(* for which Primary and Candidate answer with equal status codes and      *)
(* equal bodies but different values of a header gets the verdict false    *)
(* and no error.  Stated without noise detection, as in the test, so that  *)
(* no error of the noise branch is involved.                               *)
(***************************************************************************)
C16_HeaderDifferenceIsFalse ==
    (/\ Returned
     /\ Config.Headers
     /\ ~Config.NoiseDetection
     /\ Answered(primary)
     /\ Answered(candidate)
     /\ primary.status = candidate.status
     /\ primary.body = candidate.body
     /\ primary.header # candidate.header)
        => (result = FALSE /\ err = NoError)

(***************************************************************************)
(* C17.  For every request that completes without error, Diferencia        *)
(* returns, next to the result, a captured content equal to the body       *)
(* Primary returned for the request, byte for byte, whatever noise removal *)
(* did to the bodies compared.                                             *)
(***************************************************************************)
\* func Diferencia(r *http.Request) (bool, error): the values returned.
DiferenciaReturns == [result |-> result, err |-> err]

C17_PrimaryContentReturned ==
    (Returned /\ err = NoError) =>
        /\ "content" \in DOMAIN DiferenciaReturns
        /\ DiferenciaReturns["content"] = primary.body

(***************************************************************************)
(* C18.  For every request that passes the safety gate, every enabled      *)
(* upstream (Primary, Candidate and, with NoiseDetection, Secondary) has   *)
(* been invoked and has answered or failed by the time Diferencia returns  *)
(* a comparison or a failure: the failure of one upstream does not prevent *)
(* the invocation of the others.                                           *)
(***************************************************************************)
\* The upstream was invoked, and the call has completed.
Invoked(c) == Answered(c) \/ Failed(c)

PassesGate == Config.AllowUnsafeOperations \/ isSafeOperation(method)

C18_EveryEnabledUpstreamInvoked ==
    (Returned /\ PassesGate) =>
        /\ Invoked(primary)
        /\ Invoked(candidate)
        /\ Config.NoiseDetection => Invoked(secondary)

\* The half of C18 about comparisons: none is made before every enabled
\* upstream has answered.
C18_ComparisonAfterAllCalls ==
    compared # <<>> =>
        /\ Answered(primary)
        /\ Answered(candidate)
        /\ Config.NoiseDetection => Answered(secondary)

(***************************************************************************)
(* C19.  Secondary is contacted for a request only if NoiseDetection is    *)
(* true: with NoiseDetection false no call to Secondary is ever made, and  *)
(* a request whose calls to Primary and Candidate succeed makes exactly    *)
(* two upstream calls, to Primary and to Candidate.                        *)
(***************************************************************************)
SecondaryContacted ==
    \/ secondary # NoContent
    \/ \E i \in 1..Len(calls) : calls[i] = CreateUrl(RequestURL, Config.Secondary)

C19_SecondaryOnlyWithNoiseDetection ==
    /\ SecondaryContacted => Config.NoiseDetection
    /\ (/\ ~Config.NoiseDetection
        /\ Returned
        /\ Answered(primary)
        /\ Answered(candidate))
          => calls = <<CreateUrl(RequestURL, Config.Primary),
                       CreateUrl(RequestURL, Config.Candidate)>>

C19_Witness ==
    /\ ~Config.NoiseDetection
    /\ pc = "done"
    /\ Answered(primary)
    /\ Answered(candidate)
    /\ Len(calls) = 2
    /\ ~SecondaryContacted

(***************************************************************************)
(* C20.  The exporter is handed the interactions of a request only after   *)
(* the verdict of the request has been computed, at most once per request, *)
(* and the verdict recorded in the exported interactions equals the        *)
(* verdict Diferencia returns to the caller.                               *)
(***************************************************************************)
\* The verdict of the comparison: result holds what compareResult found on
\* the answers of the upstreams.
VerdictComputed ==
    /\ Answered(primary)
    /\ Answered(candidate)
    /\ result = (/\ compared # <<>>
                 /\ CompareDocuments(compared[1].candidate, compared[1].primary,
                                     compared[1].mode))
    /\ compared = <<>> => primary.status # candidate.status

C20_ExportAfterVerdictOnce ==
    /\ [](/\ Len(exported) <= 1
          /\ exported # <<>> =>
                /\ pc = "exportWait" \/ Returned
                /\ err = NoError
                /\ exported[1].interactions.result = result)
    /\ [][exported' # exported => (exported = <<>> /\ VerdictComputed)]_vars

C20_Witness ==
    /\ pc = "done"
    /\ Len(exported) = 1
    /\ exported[1].interactions.result = TRUE
    /\ result = TRUE

(***************************************************************************)
(* C21.  A request rejected by the safety gate causes no upstream call at  *)
(* all (neither Primary, Candidate nor Secondary is contacted), no         *)
(* comparison and no export: the gate is evaluated before any other step   *)
(* of Diferencia.                                                          *)
(***************************************************************************)
\* The request is one the gate rejects.
Rejected == ~Config.AllowUnsafeOperations /\ method \notin SafeMethods

C21_RejectedCausesNoCallNoExport ==
    Rejected =>
        /\ calls = <<>>
        /\ primary = NoContent
        /\ candidate = NoContent
        /\ secondary = NoContent
        /\ compared = <<>>
        /\ exported = <<>>
        /\ pc \in {"idle", "return", "done"}

C21_Witness ==
    /\ Rejected
    /\ IsStoreResultsSet(Config)
    /\ Config.NoiseDetection
    /\ pc = "done"
    /\ err.code = StatusMethodNotAllowed
    /\ calls = <<>>
    /\ exported = <<>>

(***************************************************************************)
(* C22.  Within one request the upstream client is invoked at most once    *)
(* per upstream and in the fixed order Primary, then Candidate, then       *)
(* Secondary, and the n-th response the client delivers is attributed to   *)
(* the n-th upstream of that order.                                        *)
(***************************************************************************)
\* The URLs of the upstreams in the order of the calls.
UpstreamOrder ==
    <<CreateUrl(RequestURL, Config.Primary), CreateUrl(RequestURL, Config.Candidate),
      CreateUrl(RequestURL, Config.Secondary)>>

\* What Diferencia holds for the upstream of the n-th call.
Attributed(n) == <<primary, candidate, secondary>>[n]

C22_CallsOnceInOrder ==
    /\ Len(calls) <= 3
    /\ Len(answers) \in {Len(calls), Len(calls) - 1}
    /\ \A n \in 1..Len(calls) : calls[n] = UpstreamOrder[n]
    /\ \A n \in 1..Len(answers) :
          Attributed(n) = Content(UpstreamOrder[n], answers[n], getContent(answers[n]))
    /\ \A n \in (Len(answers) + 1)..3 : Attributed(n) = NoContent
    /\ \A n, m \in 1..Len(calls) : calls[n] = calls[m] => n = m

\* The three upstreams called, each with a different answer.
C22_Witness ==
    /\ pc = "done"
    /\ Len(calls) = 3
    /\ primary.body # secondary.body
    /\ primary.body # candidate.body
    /\ candidate.body # secondary.body
    /\ Parses(primary.body)
    /\ Parses(candidate.body)
    /\ Parses(secondary.body)
    /\ result = TRUE

(***************************************************************************)
(* C23.  In the noise branch an error of noise removal (Remove on the      *)
(* bodies of Primary and Candidate) is never ignored: whenever Remove      *)
(* fails, Diferencia returns an error and computes no verdict from the     *)
(* bodies Remove returned.                                                 *)
(***************************************************************************)
\* The request reached Remove, and Remove failed.
RemoveFailed ==
    /\ Config.NoiseDetection
    /\ Answered(primary)
    /\ Answered(candidate)
    /\ Answered(secondary)
    /\ primary.status = secondary.status
    /\ ~Detect(primary.body, secondary.body).err
    /\ \A clean \in Remove(noiseOperation, primary.body, candidate.body) : clean.err

C23_RemoveErrorReturned ==
    (RemoveFailed /\ Returned) =>
        /\ err.kind # "nil"
        /\ compared = <<>>

(***************************************************************************)
(* C24.  For every request the handler sets the status of the response     *)
(* exactly once: on every path through diferenciaHandler (verdict true,    *)
(* verdict false, DiferenciaError, other error) there is exactly one call  *)
(* to WriteHeader.                                                         *)
(***************************************************************************)
C24_OneWriteHeader ==
    pc = "done" => Len(w.headerCalls) = 1

\* The paths of C24 that end with a verdict: one call to WriteHeader.
C24_OneWriteHeaderOnVerdict ==
    (pc = "done" /\ err.kind = "nil") => Len(w.headerCalls) = 1

(***************************************************************************)
(* C25.  NewDifference and Difference.String are inverse on the three      *)
(* modes: for every d in {Strict, Subset, Schema}, NewDifference of the    *)
(* name of d returns d without error; NewDifference returns an error for   *)
(* every other string, "Unknown" included, the name String gives to a      *)
(* value out of range.  Stated on the functions, and on every update of    *)
(* the configuration that names a Mode.                                    *)
(***************************************************************************)
\* The values of Difference String is applied to: the modes and their
\* neighbours out of range.
DifferenceValues == (Strict - 1)..(Schema + 1)

C25_Inverse ==
    /\ \A d \in Difference :
          NewDifference(DifferenceString(d)) = [difference |-> d, err |-> FALSE]
    /\ \A name \in ModeNames \cup {""} :
          name \notin {DifferenceString(d) : d \in Difference}
              => NewDifference(name).err
    /\ \A v \in DifferenceValues \ Difference :
          /\ DifferenceString(v) = "Unknown"
          /\ NewDifference(DifferenceString(v)).err
    /\ \A name \in ModeNames :
          ~NewDifference(name).err
              => DifferenceString(NewDifference(name).difference) = name

C25_UpdateNamesMode ==
    [][(/\ Len(updates') = Len(updates) + 1
        /\ updates'[Len(updates')].patch.Mode # "")
          => LET update == updates'[Len(updates')]
             IN  IF update.err = "nil"
                 THEN /\ Config'.DifferenceMode \in Difference
                      /\ DifferenceString(Config'.DifferenceMode) = update.patch.Mode
                 ELSE /\ Config' = Config
                      /\ \/ update.patch.Mode \in {"Unknown", "incorrect"}
                         \/ update.patch.NoiseDetection = "incorrect"]_vars

C25_NewDifferenceStringInverse == []C25_Inverse /\ C25_UpdateNamesMode

\* An update that named the mode Schema has been committed, on a
\* configuration that was Strict.
C25_Witness ==
    /\ Len(updates) = 1
    /\ updates[1].patch.Mode = "Schema"
    /\ updates[1].err = "nil"
    /\ published[1].DifferenceMode = Strict
    /\ Config.DifferenceMode = Schema
    /\ NewDifference(DifferenceString(Config.DifferenceMode)).difference = Schema

====
